---- MODULE Spec2Model ----
(***************************************************************************)
(* Model of the Stopwatch component (session recorder, session set store)  *)
(* of adobocorp/mobile-timer.  The component is a React function           *)
(* component: its state is the useState cells, every handler is a closure  *)
(* over the state of the render in which it was created, and an async      *)
(* handler keeps the values it captured across each await.                 *)
(***************************************************************************)
EXTENDS Integers, Sequences, FiniteSets, Bags, TLC

\* ---------------------------------------------------------------- bounds
MaxAsync == 2           \* invocations of the async handlers (save, delete,
                        \* reset with a confirmation) in one run
MaxTicks == 2           \* firings of the interval callback in one run
MaxClockTicks == 3      \* the same, in the runs of the clock and recorder alone
MaxMinutes == 100       \* largest minutes field handed to formatTime
MaxSummarySets == 3     \* saved sets in a collection handed to the summary

\* ------------------------------------------------------ program constants
TickMs == 10            \* setInterval period and increment
MsPerDay == 86400000
MsPerMinute == 60000
MsPerSecond == 1000
MsPerCentisecond == 10

\* ------------------------------------------------------------------ state
\* The useState cells that only drive the presentation (activeTab,
\* isModalOpen, modalActivePanel, touchStart, expandedSessionSets) decide
\* nothing about the cells below and are left out.
VARIABLES
    time,               \* useState(0): elapsed ms
    display,            \* the text of the time display: {formatTime(time)}
    isRunning,          \* useState(false)
    ticking,            \* a setInterval registration of the tick effect is live
    sessions,           \* useState<Session[]>([]): the current batch
    savedSessionSets,   \* useState<SavedSessionSet[]>([])
    storage,            \* Preferences entry under the key savedSessionSets
    now,                \* the wall clock read by Date.now() / new Date()
    loadOp,             \* the loadSavedSessions() call made on mount
    ops,                \* pending saveSessionSet / deleteSavedSessionSet /
                        \* handleReset invocations, with what they captured
    alert,              \* title of the last Dialog.alert shown
    started,            \* number of async handler invocations so far
    timezone,           \* minutes the device's local time is ahead of UTC
    periods,            \* what generateSessionSummary() returned to the last
                        \* render of the summary
    selectedPeriod,     \* useState<SessionSummaryPeriod | null>(null), null
                        \* being the empty sequence
    dailyArray,         \* the daily breakdown of the last histogram report
    lastSave,           \* history, kept in the runs of the session set
                        \* store alone: the id the latest confirmed save gave
                        \* its set, with the collection and the persisted
                        \* list it found (emptied by the confirmed delete of
                        \* another set)
    registeredUsers,    \* Preferences entry under the key registeredUsers
    authToken,          \* Preferences entry under the key authToken
    userData,           \* Preferences entry under the key userData
    user,               \* useState<User | null>(null) of the AuthProvider,
                        \* null being the empty sequence
    authOps,            \* pending initializeAuth / login / register /
                        \* logout invocations, with what they hold
    outcome             \* title of the last Dialog.alert of the
                        \* AuthProvider and the value returned after it

\* the cells of the session summary and its report
summaryVars == <<timezone, periods, selectedPeriod, dailyArray>>

\* the cells and entries of the AuthProvider
authVars == <<registeredUsers, authToken, userData, user, authOps, outcome>>

vars == <<time, display, isRunning, ticking, sessions, savedSessionSets,
          storage, now, loadOp, ops, alert, started, summaryVars, lastSave, authVars>>

\* -------------------------------------------------------- pure functions

RECURSIVE SumDurations(_)
\* sessions.reduce((total, session) => total + session.duration, 0)
SumDurations(ss) ==
    IF ss = <<>> THEN 0
    ELSE SumDurations(SubSeq(ss, 1, Len(ss) - 1)) + ss[Len(ss)].duration

LastDurationOnly(ss) == IF ss = <<>> THEN 0 ELSE ss[Len(ss)].duration

\* calculateTotalTime of a render whose batch is ss
calculateTotalTime(ss) == SumDurations(ss)

RECURSIVE NumberToString(_)
\* Number.prototype.toString(): the decimal digits of n
NumberToString(n) ==
    IF n < 10 THEN <<n>>
    ELSE Append(NumberToString(n \div 10), n % 10)

\* Date.prototype.toISOString(): date part and time-of-day part of an instant
toISOString(t) == [date |-> t \div MsPerDay, timeOfDay |-> t % MsPerDay]

\* new Date(isoString)
DateFromISO(s) == s.date * MsPerDay + s.timeOfDay

\* `Session ${now.toLocaleDateString()} ${now.toLocaleTimeString(hh:mm)}`
sessionName(t) == <<"Session", t \div MsPerDay, (t % MsPerDay) \div MsPerMinute>>

\* the decimal digits of n as characters
DigitChars(n) ==
    [i \in 1..Len(NumberToString(n)) |->
        <<"0", "1", "2", "3", "4", "5", "6", "7", "8", "9">>[NumberToString(n)[i] + 1]]

RECURSIVE padStart(_, _, _)
\* String.prototype.padStart(targetLength, padString) for a one-character pad
padStart(str, targetLength, pad) ==
    IF Len(str) >= targetLength THEN str
    ELSE padStart(<<pad>> \o str, targetLength, pad)

FormatWrapsMinutes(timeMs) ==
    LET minutes == (timeMs \div MsPerMinute) % 60
        seconds == (timeMs % MsPerMinute) \div MsPerSecond
        centiseconds == (timeMs % MsPerSecond) \div MsPerCentisecond
    IN  padStart(DigitChars(minutes), 2, "0") \o <<":">>
            \o padStart(DigitChars(seconds), 2, "0") \o <<".">>
            \o padStart(DigitChars(centiseconds), 2, "0")

\* formatTime: `${minutes}:${seconds}.${centiseconds}`, each padStart(2, "0")
formatTime(timeMs) ==
    LET minutes == timeMs \div MsPerMinute
        seconds == (timeMs % MsPerMinute) \div MsPerSecond
        centiseconds == (timeMs % MsPerSecond) \div MsPerCentisecond
    IN  padStart(DigitChars(minutes), 2, "0") \o <<":">>
            \o padStart(DigitChars(seconds), 2, "0") \o <<".">>
            \o padStart(DigitChars(centiseconds), 2, "0")

EffectWithoutCleanup(registered, wasRunning, running) == registered \/ running

\* the tick effect, run after a render: when its dependency isRunning changed,
\* the cleanup clears the interval of the previous run and the body registers
\* one if isRunning; otherwise the registration is left as it is
effectInterval(registered, wasRunning, running) ==
    IF running = wasRunning THEN registered ELSE running

SessionIdIsDuration(t, d) == [id |-> d, duration |-> d, timestamp |-> t]

\* the Session literal of handleStop
newSession(t, d) == [id |-> t, duration |-> d, timestamp |-> t]

BadSessionSet(ss, t) ==
    [id |-> NumberToString(t), name |-> sessionName(t), sessions |-> ss,
     totalTime |-> IF ss = <<>> THEN 0 ELSE ss[1].duration, createdAt |-> t]

\* the SavedSessionSet literal of saveSessionSet
newSessionSet(ss, t) ==
    [id |-> NumberToString(t), name |-> sessionName(t), sessions |-> ss,
     totalTime |-> calculateTotalTime(ss), createdAt |-> t]

StringifyToSeconds(s) ==
    [id |-> s.id, duration |-> s.duration,
     timestamp |-> toISOString((s.timestamp \div MsPerSecond) * MsPerSecond)]

\* JSON.stringify of one Session / one SavedSessionSet: Dates become ISO strings
stringifySession(s) ==
    [id |-> s.id, duration |-> s.duration, timestamp |-> toISOString(s.timestamp)]

stringifySet(S) ==
    [id |-> S.id, name |-> S.name,
     sessions |-> [j \in 1..Len(S.sessions) |-> stringifySession(S.sessions[j])],
     totalTime |-> S.totalTime, createdAt |-> toISOString(S.createdAt)]

\* the value handed to Preferences.set
stringify(sets) ==
    [kind |-> "json", value |-> [i \in 1..Len(sets) |-> stringifySet(sets[i])]]

\* the map in loadSavedSessions that turns date strings back into Dates
reviveSession(s) ==
    [id |-> s.id, duration |-> s.duration, timestamp |-> DateFromISO(s.timestamp)]

reviveSet(S) ==
    [id |-> S.id, name |-> S.name,
     sessions |-> [j \in 1..Len(S.sessions) |-> reviveSession(S.sessions[j])],
     totalTime |-> S.totalTime, createdAt |-> DateFromISO(S.createdAt)]

sessionsWithDates(parsed) == [i \in 1..Len(parsed) |-> reviveSet(parsed[i])]

\* savedSessionSets.filter((set) => set.id !== id)
FilterOutId(sets, id) == SelectSeq(sets, LAMBDA S : S.id # id)

\* savedSessionSets.find(set => set.id === id) is defined
HasId(sets, id) == \E i \in 1..Len(sets) : sets[i].id = id

\* ----------------------------------------------------------- the calendar
\* In the session summary an instant (a Date) is held as the day number of
\* its UTC date, counted from 1970-01-01, and the milliseconds into that day:
\* [date |-> d, timeOfDay |-> ms].

\* the instant ms milliseconds after the start of UTC day d, ms of any sign
MakeTime(d, ms) == [date |-> d + (ms \div MsPerDay), timeOfDay |-> ms % MsPerDay]

\* a.getTime() - b.getTime() > 0
Later(a, b) ==
    a.date > b.date \/ (a.date = b.date /\ a.timeOfDay > b.timeOfDay)

\* the day number of the civil date y-m-d (m in 1..12), as the Date
\* constructor computes it
DaysFromCivil(y, m, d) ==
    LET yy == IF m <= 2 THEN y - 1 ELSE y
        era == yy \div 400
        yoe == yy - era * 400
        mp == IF m > 2 THEN m - 3 ELSE m + 9
        doy == ((153 * mp + 2) \div 5) + d - 1
        doe == yoe * 365 + (yoe \div 4) - (yoe \div 100) + doy
    IN  era * 146097 + doe - 719468

\* the civil date of day number z
CivilFromDays(z) ==
    LET zz == z + 719468
        era == zz \div 146097
        doe == zz - era * 146097
        yoe == (doe - (doe \div 1460) + (doe \div 36524) - (doe \div 146096)) \div 365
        doy == doe - (365 * yoe + (yoe \div 4) - (yoe \div 100))
        mp == (5 * doy + 2) \div 153
        m == IF mp < 10 THEN mp + 3 ELSE mp - 9
    IN  [year |-> yoe + era * 400 + (IF m <= 2 THEN 1 ELSE 0),
         month |-> m,
         day |-> doy - ((153 * mp + 2) \div 5) + 1]

\* the local civil date of an instant on a device tz minutes ahead of UTC
LocalDate(t, tz) == CivilFromDays(MakeTime(t.date, t.timeOfDay + tz * MsPerMinute).date)

getFullYear(t, tz) == LocalDate(t, tz).year

\* 0-indexed
getMonth(t, tz) == LocalDate(t, tz).month - 1

getDate(t, tz) == LocalDate(t, tz).day

\* new Date(year, month, day, 0, 0, 0, ms) in local time: month is 0-indexed
\* and month and day are carried over (month 12 is January of the next year,
\* day 0 the last day of the month before)
newDate(year, month, day, ms, tz) ==
    MakeTime(DaysFromCivil(year + (month \div 12), (month % 12) + 1, 1) + day - 1,
             ms - tz * MsPerMinute)

\* 23 h 59 min 59 s 999 ms
EndOfDay == MsPerDay - 1

\* date.toISOString().split('T')[0]: the UTC date of an instant.  The text
\* YYYY-MM-DD is held as the day number it names, which orders as the text
\* does under localeCompare
isoDay(t) == t.date

\* ------------------------------------------------------- Period Aggregator
KeyWithoutYear(sessionSet, tz) ==
    <<0, getMonth(sessionSet.createdAt, tz),
      IF getDate(sessionSet.createdAt, tz) <= 15 THEN "first" ELSE "second">>

\* the periodKey of a set: `${year}-${month}-${isFirstHalf ? 'first' : 'second'}`
periodKey(sessionSet, tz) ==
    <<getFullYear(sessionSet.createdAt, tz), getMonth(sessionSet.createdAt, tz),
      IF getDate(sessionSet.createdAt, tz) <= 15 THEN "first" ELSE "second">>

\* the period object put in the map for the first set of a period
EndsOnThe30th(sessionSet, tz) ==
    LET year == getFullYear(sessionSet.createdAt, tz)
        month == getMonth(sessionSet.createdAt, tz)
        isFirstHalf == getDate(sessionSet.createdAt, tz) <= 15
    IN  [startDate |-> IF isFirstHalf THEN newDate(year, month, 1, 0, tz)
                       ELSE newDate(year, month, 16, 0, tz),
         endDate |-> IF isFirstHalf THEN newDate(year, month, 15, EndOfDay, tz)
                     ELSE newDate(year, month, 30, EndOfDay, tz),
         sessions |-> <<>>, totalTime |-> 0, sessionCount |-> 0]

\* the period a set opens when its key is new: startDate and endDate of its
\* half, no members yet
emptyPeriod(sessionSet, tz) ==
    LET year == getFullYear(sessionSet.createdAt, tz)
        month == getMonth(sessionSet.createdAt, tz)
        isFirstHalf == getDate(sessionSet.createdAt, tz) <= 15
    IN  [startDate |-> IF isFirstHalf THEN newDate(year, month, 1, 0, tz)
                       ELSE newDate(year, month, 16, 0, tz),
         endDate |-> IF isFirstHalf THEN newDate(year, month, 15, EndOfDay, tz)
                     ELSE newDate(year, month + 1, 0, EndOfDay, tz),
         sessions |-> <<>>, totalTime |-> 0, sessionCount |-> 0]

AddOverwritesTotal(periodsMap, sessionSet, tz) ==
    LET key == periodKey(sessionSet, tz)
        has == \E k \in 1..Len(periodsMap) : periodsMap[k].key = key
        map == IF has THEN periodsMap
               ELSE Append(periodsMap,
                           [key |-> key, period |-> emptyPeriod(sessionSet, tz)])
        at == CHOOSE k \in 1..Len(map) : map[k].key = key
        period == map[at].period
    IN  [map EXCEPT ![at].period =
            [period EXCEPT !.sessions = Append(period.sessions, sessionSet),
                           !.totalTime = sessionSet.totalTime,
                           !.sessionCount = period.sessionCount
                                              + Len(sessionSet.sessions)]]

AddCountsSets(periodsMap, sessionSet, tz) ==
    LET key == periodKey(sessionSet, tz)
        has == \E k \in 1..Len(periodsMap) : periodsMap[k].key = key
        map == IF has THEN periodsMap
               ELSE Append(periodsMap,
                           [key |-> key, period |-> emptyPeriod(sessionSet, tz)])
        at == CHOOSE k \in 1..Len(map) : map[k].key = key
        period == map[at].period
    IN  [map EXCEPT ![at].period =
            [period EXCEPT !.sessions = Append(period.sessions, sessionSet),
                           !.totalTime = period.totalTime + sessionSet.totalTime,
                           !.sessionCount = period.sessionCount + 1]]

\* one pass of the forEach: the map, a sequence of entries in insertion order,
\* after sessionSet is put into its period
addToPeriod(periodsMap, sessionSet, tz) ==
    LET key == periodKey(sessionSet, tz)
        has == \E k \in 1..Len(periodsMap) : periodsMap[k].key = key
        map == IF has THEN periodsMap
               ELSE Append(periodsMap,
                           [key |-> key, period |-> emptyPeriod(sessionSet, tz)])
        at == CHOOSE k \in 1..Len(map) : map[k].key = key
        period == map[at].period
    IN  [map EXCEPT ![at].period =
            [period EXCEPT !.sessions = Append(period.sessions, sessionSet),
                           !.totalTime = period.totalTime + sessionSet.totalTime,
                           !.sessionCount = period.sessionCount
                                              + Len(sessionSet.sessions)]]

RECURSIVE groupByPeriod(_, _)
\* savedSessionSets.forEach(...) over an empty map
groupByPeriod(sets, tz) ==
    IF sets = <<>> THEN <<>>
    ELSE addToPeriod(groupByPeriod(SubSeq(sets, 1, Len(sets) - 1), tz),
                     sets[Len(sets)], tz)

RECURSIVE sortByStartDate(_)
\* .sort((a, b) => b.startDate.getTime() - a.startDate.getTime()): a stable
\* sort, later start dates first
sortByStartDate(ps) ==
    IF ps = <<>> THEN <<>>
    ELSE LET rest == sortByStartDate(SubSeq(ps, 1, Len(ps) - 1))
             p == ps[Len(ps)]
             before == SelectSeq(rest, LAMBDA q : ~Later(p.startDate, q.startDate))
             after == SelectSeq(rest, LAMBDA q : Later(p.startDate, q.startDate))
         IN  before \o <<p>> \o after

SummaryUnsorted(sets, tz) ==
    IF Len(sets) = 0 THEN <<>>
    ELSE LET periodsMap == groupByPeriod(sets, tz)
         IN  [k \in 1..Len(periodsMap) |-> periodsMap[k].period]

\* generateSessionSummary of a render whose collection is sets
generateSessionSummary(sets, tz) ==
    IF Len(sets) = 0 THEN <<>>
    ELSE LET periodsMap == groupByPeriod(sets, tz)
         IN  sortByStartDate([k \in 1..Len(periodsMap) |-> periodsMap[k].period])

\* -------------------------------------------------- Daily Breakdown Deriver
RECURSIVE daysOfLoop(_, _)
\* the dates the for loop visits from date on: date <= endDate, date.setDate(date.getDate() + 1)
daysOfLoop(date, endDate) ==
    IF Later(date, endDate) THEN <<>>
    ELSE <<date>> \o daysOfLoop([date EXCEPT !.date = date.date + 1], endDate)

RECURSIVE allSessions(_)
\* the Sessions the two nested forEach visit, in order
allSessions(sets) ==
    IF sets = <<>> THEN <<>>
    ELSE sets[1].sessions \o allSessions(Tail(sets))

RECURSIVE sortedKeys(_)
\* the keys of the map in ascending order
sortedKeys(keys) ==
    IF keys = {} THEN <<>>
    ELSE LET least == CHOOSE k \in keys : \A other \in keys : k <= other
         IN  <<least>> \o sortedKeys(keys \ {least})

BreakdownWithinPeriod(period) ==
    LET loop == daysOfLoop(period.startDate, period.endDate)
        visited == allSessions(period.sessions)
        keys == {isoDay(loop[i]) : i \in 1..Len(loop)}
        order == sortedKeys(keys)
    IN  [i \in 1..Len(order) |->
            [day |-> order[i],
             time |-> SumDurations(SelectSeq(visited,
                          LAMBDA x : isoDay(x.timestamp) = order[i]))]]

\* dailyArray of copyHistogramReport for the period it was called with: every
\* day of the loop starts at 0, every Session adds its duration to the day of
\* its timestamp (a day the loop did not visit is added), and the entries
\* are sorted by day
dailyBreakdown(period) ==
    LET loop == daysOfLoop(period.startDate, period.endDate)
        visited == allSessions(period.sessions)
        keys == {isoDay(loop[i]) : i \in 1..Len(loop)}
                    \cup {isoDay(visited[i].timestamp) : i \in 1..Len(visited)}
        order == sortedKeys(keys)
    IN  [i \in 1..Len(order) |->
            [day |-> order[i],
             time |-> SumDurations(SelectSeq(visited,
                          LAMBDA x : isoDay(x.timestamp) = order[i]))]]

\* ------------------------------------------------------- storage contents
NoEntry == [kind |-> "none", value |-> <<>>]
Malformed == [kind |-> "malformed", value |-> <<>>]

\* a set written by an earlier run of the application, at instant 0
EarlierSet == newSessionSet(<<newSession(0, TickMs)>>, 0)

\* ------------------------------------------------------ handler bookkeeping
\* An async handler is a closure over the render it was created in: what it
\* read from sessions and savedSessionSets before its first await is what it
\* uses after it.  ops is the bag of the invocations that are suspended at an
\* await; a field an invocation no longer reads is emptied.
ConfirmOp(kind, ss, sets, id) ==
    [kind |-> kind, pc |-> "confirm", value |-> FALSE, sessions |-> ss,
     sets |-> sets, id |-> id, updatedSets |-> <<>>]

WriteOp(kind, value, id, updatedSets) ==
    [kind |-> kind, pc |-> "write", value |-> value, sessions |-> <<>>,
     sets |-> <<>>, id |-> id, updatedSets |-> updatedSets]

Pending == BagToSet(ops)

Suspend(op) == ops (+) SetToBag({op})

Resume(op) == ops (-) SetToBag({op})

Continue(op, next) == (ops (-) SetToBag({op})) (+) SetToBag({next})

\* the run may still start an async handler
CanSuspend == started < MaxAsync

\* ids a delete can be asked for: those on screen, and one that no set has
\* (no decimal numeral has two leading zeros)
UnknownId == <<0, 0>>
DeleteIds == {savedSessionSets[i].id : i \in 1..Len(savedSessionSets)} \cup {UnknownId}

\* ------------------------------------------------------------ AuthProvider
\* The functions of the AuthProvider are modelled as the context hands them
\* out: any component may call them at any time.  isLoading only drives the
\* presentation and is left out.  A string is a TLA+ string, but for an email,
\* which is the sequence of its parts so that includes("@") can be asked.
AbsentEntry == [kind |-> "none", value |-> <<>>]

StoredEntry(v) == [kind |-> "json", value |-> v]

\* usersData ? JSON.parse(usersData) : []
ParseUsers(entry) == IF entry.kind = "json" THEN entry.value ELSE <<>>

\* email.includes("@")
includesAt(email) == \E i \in 1..Len(email) : email[i] = "@"

demoUser(t) ==
    [id |-> <<"demo_user_001">>, username |-> "demo",
     email |-> <<"demo", "@", "example.com">>, password |-> "demo123",
     createdAt |-> toISOString(t)]

\* the newUser literal of register (the random part of the id is left out)
newUser(username, email, password, t) ==
    [id |-> <<"user", t>>, username |-> username, email |-> email,
     password |-> password, createdAt |-> toISOString(t)]

\* the user literal of login
sessionUser(foundUser) ==
    [id |-> foundUser.id, username |-> foundUser.username, email |-> foundUser.email]

\* users.find(u => u.username === username || u.email === email) finds one
existingUser(users, username, email) ==
    \E i \in 1..Len(users) : users[i].username = username \/ users[i].email = email

\* the indices of users.find(u => u.username === username && u.password === password)
Matches(users, username, password) ==
    {i \in 1..Len(users) : users[i].username = username /\ users[i].password = password}

\* what the callers of the bounded runs hand in
Usernames == {"demo", "ann", "bob", "al"}
Emails == {<<"demo", "@", "example.com">>, <<"ann", "@", "x.org">>, <<"ann.x.org">>}
Passwords == {"demo123", "secret1", "short"}

\* a suspended call of the AuthProvider; known notes, for a register, whether
\* its username or email stood in the stored list when it was called
AuthOp(kind, pc, username, email, password, users) ==
    [kind |-> kind, pc |-> pc, username |-> username, email |-> email,
     password |-> password, users |-> users, known |-> FALSE]

AuthPending == BagToSet(authOps)

AuthNext(op, next) == (authOps (-) SetToBag({op})) (+) SetToBag({next})

AuthDone(op) == authOps (-) SetToBag({op})

NoOutcome == [title |-> "none", value |-> "none"]

\* the AuthProvider of the runs of the Stopwatch: initialised, nobody logged in
AuthAtRest ==
    /\ registeredUsers = StoredEntry(<<demoUser(0)>>)
    /\ authToken = AbsentEntry
    /\ userData = AbsentEntry
    /\ user = <<>>
    /\ authOps = EmptyBag
    /\ outcome = NoOutcome

stopwatchAndSummary ==
    <<time, display, isRunning, ticking, sessions, savedSessionSets, storage,
      now, loadOp, ops, alert, summaryVars, lastSave>>

\* initializeAuth after Preferences.get answered
InitGet(op) ==
    /\ op \in AuthPending /\ op.kind = "init" /\ op.pc = "get"
    /\ authOps' = AuthNext(op, [op EXCEPT !.pc =
                      IF Len(ParseUsers(registeredUsers)) = 0 THEN "seed" ELSE "token"])
    /\ UNCHANGED <<registeredUsers, authToken, userData, user, outcome,
                   started, stopwatchAndSummary>>

\* initializeAuth: Preferences.set of the demo user, then checkAuthStatus()
InitSeed(op) ==
    /\ op \in AuthPending /\ op.kind = "init" /\ op.pc = "seed"
    /\ registeredUsers' = StoredEntry(<<demoUser(now)>>)
    /\ authOps' = AuthNext(op, [op EXCEPT !.pc = "token"])
    /\ UNCHANGED <<authToken, userData, user, outcome, started,
                   stopwatchAndSummary>>

\* checkAuthStatus after Preferences.get of authToken answered
CheckToken(op) ==
    /\ op \in AuthPending /\ op.kind = "init" /\ op.pc = "token"
    /\ authOps' = AuthNext(op, [op EXCEPT !.pc = "user", !.users = <<authToken>>])
    /\ UNCHANGED <<registeredUsers, authToken, userData, user, outcome,
                   started, stopwatchAndSummary>>

\* checkAuthStatus after Preferences.get of userData answered
CheckUser(op) ==
    /\ op \in AuthPending /\ op.kind = "init" /\ op.pc = "user"
    /\ user' = IF op.users[1].kind = "json" /\ userData.kind = "json"
               THEN <<userData.value>>
               ELSE user
    /\ authOps' = AuthDone(op)
    /\ UNCHANGED <<registeredUsers, authToken, userData, outcome, started,
                   stopwatchAndSummary>>

\* a Preferences call of initializeAuth or checkAuthStatus rejects: the catch
\* blocks log
InitRejected(op) ==
    /\ op \in AuthPending /\ op.kind = "init"
    /\ authOps' = AuthDone(op)
    /\ UNCHANGED <<registeredUsers, authToken, userData, user, outcome,
                   started, stopwatchAndSummary>>

\* login up to its first await
login(username, password) ==
    IF Len(username) < 3 \/ Len(password) < 6
    THEN /\ outcome' = [title |-> "Login Failed", value |-> "false"]
         /\ UNCHANGED <<registeredUsers, authToken, userData, user, authOps,
                        started, stopwatchAndSummary>>
    ELSE /\ CanSuspend
         /\ authOps' = authOps (+) SetToBag({AuthOp("login", "get", username, <<>>,
                                                    password, <<>>)})
         /\ started' = started + 1
         /\ UNCHANGED <<registeredUsers, authToken, userData, user, outcome,
                        stopwatchAndSummary>>

\* login after Preferences.get of registeredUsers answered
LoginGet(op) ==
    /\ op \in AuthPending /\ op.kind = "login" /\ op.pc = "get"
    /\ LET users == ParseUsers(registeredUsers)
           found == Matches(users, op.username, op.password)
       IN  IF found = {}
           THEN /\ outcome' = [title |-> "Login Failed", value |-> "false"]
                /\ authOps' = AuthDone(op)
           ELSE /\ authOps' = AuthNext(op,
                      [op EXCEPT !.pc = "token",
                                 !.users = <<users[CHOOSE i \in found :
                                                \A j \in found : i <= j]>>])
                /\ UNCHANGED outcome
    /\ UNCHANGED <<registeredUsers, authToken, userData, user, started,
                   stopwatchAndSummary>>

\* login: Preferences.set of authToken stored
LoginSetToken(op) ==
    /\ op \in AuthPending /\ op.kind = "login" /\ op.pc = "token"
    /\ authToken' = StoredEntry(<<"token", now>>)
    /\ authOps' = AuthNext(op, [op EXCEPT !.pc = "data"])
    /\ UNCHANGED <<registeredUsers, userData, user, outcome, started,
                   stopwatchAndSummary>>

\* login: Preferences.set of userData stored, setUser, the welcome alert
LoginSetData(op) ==
    /\ op \in AuthPending /\ op.kind = "login" /\ op.pc = "data"
    /\ userData' = StoredEntry(sessionUser(op.users[1]))
    /\ user' = <<sessionUser(op.users[1])>>
    /\ outcome' = [title |-> "Welcome Back!", value |-> "true"]
    /\ authOps' = AuthDone(op)
    /\ UNCHANGED <<registeredUsers, authToken, started, stopwatchAndSummary>>

\* a Preferences call of login rejects: the catch block
LoginRejected(op) ==
    /\ op \in AuthPending /\ op.kind = "login"
    /\ outcome' = [title |-> "Login Error", value |-> "false"]
    /\ authOps' = AuthDone(op)
    /\ UNCHANGED <<registeredUsers, authToken, userData, user, started,
                   stopwatchAndSummary>>

\* register up to its first await
register(username, email, password) ==
    IF Len(username) < 3 \/ Len(password) < 6 \/ ~includesAt(email)
    THEN /\ outcome' = [title |-> "Registration Failed", value |-> "false"]
         /\ UNCHANGED <<registeredUsers, authToken, userData, user, authOps,
                        started, stopwatchAndSummary>>
    ELSE /\ CanSuspend
         /\ authOps' = authOps (+) SetToBag({
                [AuthOp("register", "get", username, email, password, <<>>)
                    EXCEPT !.known = existingUser(ParseUsers(registeredUsers),
                                                  username, email)]})
         /\ started' = started + 1
         /\ UNCHANGED <<registeredUsers, authToken, userData, user, outcome,
                        stopwatchAndSummary>>

\* register after Preferences.get of registeredUsers answered, to its call of
\* Preferences.set
RegisterGet(op) ==
    /\ op \in AuthPending /\ op.kind = "register" /\ op.pc = "get"
    /\ LET users == ParseUsers(registeredUsers)
       IN  IF existingUser(users, op.username, op.email)
           THEN /\ outcome' = [title |-> "Registration Failed", value |-> "false"]
                /\ authOps' = AuthDone(op)
           ELSE /\ authOps' = AuthNext(op,
                      [op EXCEPT !.pc = "set",
                                 !.users = Append(users,
                                     newUser(op.username, op.email, op.password, now))])
                /\ UNCHANGED outcome
    /\ UNCHANGED <<registeredUsers, authToken, userData, user, started,
                   stopwatchAndSummary>>

\* register: Preferences.set stored the list, the success alert
RegisterSet(op) ==
    /\ op \in AuthPending /\ op.kind = "register" /\ op.pc = "set"
    /\ registeredUsers' = StoredEntry(op.users)
    /\ outcome' = [title |-> "Registration Successful", value |-> "true"]
    /\ authOps' = AuthDone(op)
    /\ UNCHANGED <<authToken, userData, user, started, stopwatchAndSummary>>

\* a Preferences call of register rejects: the catch block
RegisterRejected(op) ==
    /\ op \in AuthPending /\ op.kind = "register"
    /\ outcome' = [title |-> "Registration Error", value |-> "false"]
    /\ authOps' = AuthDone(op)
    /\ UNCHANGED <<registeredUsers, authToken, userData, user, started,
                   stopwatchAndSummary>>

\* logout up to its await Dialog.confirm
logout ==
    /\ CanSuspend
    /\ authOps' = authOps (+) SetToBag({AuthOp("logout", "confirm", "", <<>>, "", <<>>)})
    /\ started' = started + 1
    /\ UNCHANGED <<registeredUsers, authToken, userData, user, outcome,
                   stopwatchAndSummary>>

\* logout from the answer of Dialog.confirm to Preferences.remove of authToken
LogoutAnswer(op, value) ==
    /\ op \in AuthPending /\ op.kind = "logout" /\ op.pc = "confirm"
    /\ authOps' = IF value THEN AuthNext(op, [op EXCEPT !.pc = "token"])
                  ELSE AuthDone(op)
    /\ UNCHANGED <<registeredUsers, authToken, userData, user, outcome,
                   started, stopwatchAndSummary>>

\* logout: Preferences.remove of authToken done
LogoutRemoveToken(op) ==
    /\ op \in AuthPending /\ op.kind = "logout" /\ op.pc = "token"
    /\ authToken' = AbsentEntry
    /\ authOps' = AuthNext(op, [op EXCEPT !.pc = "data"])
    /\ UNCHANGED <<registeredUsers, userData, user, outcome, started,
                   stopwatchAndSummary>>

\* logout: Preferences.remove of userData done, setUser(null), the alert
LogoutRemoveData(op) ==
    /\ op \in AuthPending /\ op.kind = "logout" /\ op.pc = "data"
    /\ userData' = AbsentEntry
    /\ user' = <<>>
    /\ outcome' = [title |-> "Logged Out", value |-> "none"]
    /\ authOps' = AuthDone(op)
    /\ UNCHANGED <<registeredUsers, authToken, started, stopwatchAndSummary>>

\* Dialog.confirm or a Preferences.remove of logout rejects: the catch block
\* logs
LogoutRejected(op) ==
    /\ op \in AuthPending /\ op.kind = "logout"
    /\ authOps' = AuthDone(op)
    /\ UNCHANGED <<registeredUsers, authToken, userData, user, outcome,
                   started, stopwatchAndSummary>>

\* ------------------------------------------------------------------- Init
\* The state after mount: loadSavedSessions() has called Preferences.get.
Init ==
    /\ time = 0
    /\ display = formatTime(0)
    /\ isRunning = FALSE
    /\ ticking = FALSE
    /\ sessions = <<>>
    /\ savedSessionSets = <<>>
    /\ storage \in {NoEntry, Malformed, stringify(<<EarlierSet>>)}
    /\ now = TickMs
    /\ loadOp = [pc |-> "get", value |-> NoEntry]
    /\ ops = EmptyBag
    /\ alert = "none"
    /\ started = 0
    /\ timezone = 0
    /\ periods = <<>>
    /\ selectedPeriod = <<>>
    /\ dailyArray = <<>>
    /\ lastSave = <<>>
    /\ AuthAtRest

\* ------------------------------------------------------------ Timer Clock
\* the setInterval callback of the tick effect; a firing is at least TickMs
\* after the registration or the previous firing.  n bounds the firings of a
\* run.
TickSkipsOne(n) ==
    /\ ticking
    /\ now \div TickMs <= n
    /\ time' = IF time = TickMs THEN time ELSE time + TickMs
    /\ display' = formatTime(time')
    /\ now' = now + TickMs
    /\ UNCHANGED <<isRunning, ticking, sessions, savedSessionSets, storage,
                   loadOp, ops, alert, started, summaryVars, lastSave, authVars>>

TickWithin(n) ==
    /\ ticking
    /\ now \div TickMs <= n
    /\ time' = time + TickMs
    /\ display' = formatTime(time + TickMs)
    /\ now' = now + TickMs
    /\ UNCHANGED <<isRunning, ticking, sessions, savedSessionSets, storage,
                   loadOp, ops, alert, started, summaryVars, lastSave, authVars>>

Tick == TickWithin(MaxTicks)

StartClearsBatch ==
    /\ isRunning' = TRUE
    /\ ticking' = effectInterval(ticking, isRunning, TRUE)
    /\ sessions' = <<>>
    /\ UNCHANGED <<time, display, savedSessionSets, storage, now, loadOp, ops,
                   alert, started, summaryVars, lastSave, authVars>>

handleStart ==
    /\ isRunning' = TRUE
    /\ ticking' = effectInterval(ticking, isRunning, TRUE)
    /\ UNCHANGED <<time, display, sessions, savedSessionSets, storage, now,
                   loadOp, ops, alert, started, summaryVars, lastSave, authVars>>

\* -------------------------------------------------------- Session Recorder
StopAnyTime ==
    /\ sessions' = Append(sessions, newSession(now, time))
    /\ time' = 0
    /\ display' = formatTime(0)
    /\ isRunning' = FALSE
    /\ ticking' = effectInterval(ticking, isRunning, FALSE)
    /\ UNCHANGED <<savedSessionSets, storage, now, loadOp, ops, alert,
                   started, summaryVars, lastSave, authVars>>

StopReplacesBatch ==
    /\ sessions' = IF time > 0 THEN <<newSession(now, time)>> ELSE sessions
    /\ time' = 0
    /\ display' = formatTime(0)
    /\ isRunning' = FALSE
    /\ ticking' = effectInterval(ticking, isRunning, FALSE)
    /\ UNCHANGED <<savedSessionSets, storage, now, loadOp, ops, alert,
                   started, summaryVars, lastSave, authVars>>

StopWritesThrough ==
    /\ sessions' = IF time > 0
                   THEN Append(sessions, newSession(now, time))
                   ELSE sessions
    /\ savedSessionSets' =
          [i \in 1..Len(savedSessionSets) |->
              IF i = Len(savedSessionSets) /\ time > 0
              THEN [savedSessionSets[i] EXCEPT
                       !.sessions = Append(@, newSession(now, time))]
              ELSE savedSessionSets[i]]
    /\ time' = 0
    /\ display' = formatTime(0)
    /\ isRunning' = FALSE
    /\ ticking' = effectInterval(ticking, isRunning, FALSE)
    /\ UNCHANGED <<storage, now, loadOp, ops, alert, started, summaryVars,
                   lastSave, authVars>>

StopKeepsElapsed ==
    /\ sessions' = IF time > 0
                   THEN Append(sessions, newSession(now, time))
                   ELSE sessions
    /\ isRunning' = FALSE
    /\ ticking' = effectInterval(ticking, isRunning, FALSE)
    /\ UNCHANGED <<time, display, savedSessionSets, storage, now, loadOp,
                   ops, alert, started, summaryVars, lastSave, authVars>>

StopFreezes ==
    /\ isRunning' = FALSE
    /\ ticking' = effectInterval(ticking, isRunning, FALSE)
    /\ UNCHANGED <<time, display, sessions, savedSessionSets, storage, now,
                   loadOp, ops, alert, started, summaryVars, lastSave, authVars>>

handleStop ==
    /\ sessions' = IF time > 0
                   THEN Append(sessions, newSession(now, time))
                   ELSE sessions
    /\ time' = 0
    /\ display' = formatTime(0)
    /\ isRunning' = FALSE
    /\ ticking' = effectInterval(ticking, isRunning, FALSE)
    /\ UNCHANGED <<savedSessionSets, storage, now, loadOp, ops, alert,
                   started, summaryVars, lastSave, authVars>>

ResetWithoutAsking ==
    /\ time' = 0
    /\ display' = formatTime(0)
    /\ isRunning' = FALSE
    /\ ticking' = effectInterval(ticking, isRunning, FALSE)
    /\ sessions' = <<>>
    /\ UNCHANGED <<savedSessionSets, storage, now, loadOp, ops, alert,
                   started, summaryVars, lastSave, authVars>>

\* handleReset up to its await Dialog.confirm, or to its end when it asks nothing
handleReset ==
    IF Len(sessions) > 0 \/ time > 0
    THEN /\ CanSuspend
         /\ ops' = Suspend(ConfirmOp("reset", <<>>, <<>>, <<>>))
         /\ started' = started + 1
         /\ UNCHANGED <<time, display, isRunning, ticking, sessions,
                        savedSessionSets, storage, now, loadOp, alert,
                        summaryVars, lastSave, authVars>>
    ELSE /\ time' = 0
         /\ display' = formatTime(0)
         /\ isRunning' = FALSE
         /\ ticking' = effectInterval(ticking, isRunning, FALSE)
         /\ sessions' = <<>>
         /\ UNCHANGED <<savedSessionSets, storage, now, loadOp, ops, alert,
                        started, summaryVars, lastSave, authVars>>

ResetKeepsBatch(op, value) ==
    /\ op \in Pending /\ op.kind = "reset" /\ op.pc = "confirm"
    /\ ops' = Resume(op)
    /\ IF value
       THEN /\ time' = 0
            /\ display' = formatTime(0)
            /\ isRunning' = FALSE
            /\ ticking' = effectInterval(ticking, isRunning, FALSE)
            /\ UNCHANGED sessions
       ELSE UNCHANGED <<time, display, isRunning, ticking, sessions>>
    /\ UNCHANGED <<savedSessionSets, storage, now, loadOp, alert, started,
                   summaryVars, lastSave, authVars>>

\* handleReset from the answer of Dialog.confirm on
ResetAnswer(op, value) ==
    /\ op \in Pending /\ op.kind = "reset" /\ op.pc = "confirm"
    /\ ops' = Resume(op)
    /\ IF value
       THEN /\ time' = 0
            /\ display' = formatTime(0)
            /\ isRunning' = FALSE
            /\ ticking' = effectInterval(ticking, isRunning, FALSE)
            /\ sessions' = <<>>
       ELSE UNCHANGED <<time, display, isRunning, ticking, sessions>>
    /\ UNCHANGED <<savedSessionSets, storage, now, loadOp, alert, started,
                   summaryVars, lastSave, authVars>>

\* ------------------------------------------------------- Session Set Store
\* Preferences.get reads the entry
LoadGet ==
    /\ loadOp.pc = "get"
    /\ loadOp' = [pc |-> "got", value |-> storage]
    /\ UNCHANGED <<time, display, isRunning, ticking, sessions,
                   savedSessionSets, storage, now, ops, alert, started,
                   summaryVars, lastSave, authVars>>

LoadHealsStorage ==
    /\ loadOp.pc = "got"
    /\ loadOp' = [pc |-> "done", value |-> NoEntry]
    /\ savedSessionSets' = IF loadOp.value.kind = "json"
                           THEN sessionsWithDates(loadOp.value.value)
                           ELSE savedSessionSets
    /\ storage' = IF loadOp.value.kind = "json" THEN storage ELSE stringify(<<>>)
    /\ UNCHANGED <<time, display, isRunning, ticking, sessions, now, ops,
                   alert, started, summaryVars, lastSave, authVars>>

\* loadSavedSessions from the answer of Preferences.get on; JSON.parse throws
\* on a malformed value and the catch block only logs
loadSavedSessions ==
    /\ loadOp.pc = "got"
    /\ loadOp' = [pc |-> "done", value |-> NoEntry]
    /\ savedSessionSets' = IF loadOp.value.kind = "json"
                           THEN sessionsWithDates(loadOp.value.value)
                           ELSE savedSessionSets
    /\ UNCHANGED <<time, display, isRunning, ticking, sessions, storage, now,
                   ops, alert, started, summaryVars, lastSave, authVars>>

SaveWithoutGuard ==
    /\ CanSuspend
    /\ ops' = Suspend(ConfirmOp("save", sessions, savedSessionSets, <<>>))
    /\ started' = started + 1
    /\ UNCHANGED <<time, display, isRunning, ticking, sessions,
                   savedSessionSets, storage, now, loadOp, alert,
                   summaryVars, lastSave, authVars>>

\* saveSessionSet up to its await Dialog.confirm
saveSessionSet ==
    IF Len(sessions) = 0
    THEN UNCHANGED vars
    ELSE /\ CanSuspend
         /\ ops' = Suspend(ConfirmOp("save", sessions, savedSessionSets, <<>>))
         /\ started' = started + 1
         /\ UNCHANGED <<time, display, isRunning, ticking, sessions,
                        savedSessionSets, storage, now, loadOp, alert,
                        summaryVars, lastSave, authVars>>

SaveAnswerIgnored(op, value) ==
    /\ op \in Pending /\ op.kind = "save" /\ op.pc = "confirm"
    /\ now' = now + 1
    /\ ops' = Continue(op, WriteOp("save", value, <<>>,
                  Append(op.sets, newSessionSet(op.sessions, now + 1))))
    /\ UNCHANGED <<time, display, isRunning, ticking, sessions,
                   savedSessionSets, storage, loadOp, alert, started,
                   summaryVars, lastSave, authVars>>

\* saveSessionSet from the answer of Dialog.confirm to the call of
\* Preferences.set.  The answer is a tap of the user: it comes at least one
\* millisecond after whatever the clock was read for before.
SaveAnswer(op, value) ==
    /\ op \in Pending /\ op.kind = "save" /\ op.pc = "confirm"
    /\ now' = IF value THEN now + 1 ELSE now
    /\ ops' = IF value
              THEN Continue(op, WriteOp("save", value, <<>>,
                       Append(op.sets, newSessionSet(op.sessions, now + 1))))
              ELSE Resume(op)
    /\ UNCHANGED <<time, display, isRunning, ticking, sessions,
                   savedSessionSets, storage, loadOp, alert, started,
                   summaryVars, lastSave, authVars>>

\* Preferences.set stores the value it was given (single-key atomic)
StorageCommit(op) ==
    /\ op \in Pending /\ op.kind \in {"save", "delete"} /\ op.pc = "write"
    /\ storage' = stringify(op.updatedSets)
    /\ ops' = Continue(op, [op EXCEPT !.pc = "written"])
    /\ UNCHANGED <<time, display, isRunning, ticking, sessions,
                   savedSessionSets, now, loadOp, alert, started,
                   summaryVars, lastSave, authVars>>

ResolveStaysPending(op) ==
    /\ op \in Pending /\ op.kind = "save" /\ op.pc = "written"
    /\ savedSessionSets' = op.updatedSets
    /\ sessions' = <<>>
    /\ alert' = "Success"
    /\ UNCHANGED <<time, display, isRunning, ticking, storage, now, loadOp,
                   ops, started, summaryVars, lastSave, authVars>>

\* saveSessionSet after Preferences.set resolved: the rest of the try block
SaveResolve(op) ==
    /\ op \in Pending /\ op.kind = "save" /\ op.pc = "written"
    /\ savedSessionSets' = op.updatedSets
    /\ sessions' = <<>>
    /\ alert' = "Success"
    /\ ops' = Resume(op)
    /\ UNCHANGED <<time, display, isRunning, ticking, storage, now, loadOp,
                   started, summaryVars, lastSave, authVars>>

SaveRejectApplies(op) ==
    /\ op \in Pending /\ op.kind = "save" /\ op.pc = "write"
    /\ savedSessionSets' = op.updatedSets
    /\ alert' = "Error"
    /\ ops' = Resume(op)
    /\ UNCHANGED <<time, display, isRunning, ticking, sessions, storage, now,
                   loadOp, started, summaryVars, lastSave, authVars>>

\* saveSessionSet after Preferences.set rejected: the catch block
SaveReject(op) ==
    /\ op \in Pending /\ op.kind = "save" /\ op.pc = "write"
    /\ alert' = "Error"
    /\ ops' = Resume(op)
    /\ UNCHANGED <<time, display, isRunning, ticking, sessions,
                   savedSessionSets, storage, now, loadOp, started,
                   summaryVars, lastSave, authVars>>

DeleteWithoutGuard(id) ==
    /\ CanSuspend
    /\ ops' = Suspend(ConfirmOp("delete", <<>>, savedSessionSets, id))
    /\ started' = started + 1
    /\ UNCHANGED <<time, display, isRunning, ticking, sessions,
                   savedSessionSets, storage, now, loadOp, alert,
                   summaryVars, lastSave, authVars>>

\* deleteSavedSessionSet up to its await Dialog.confirm
deleteSavedSessionSet(id) ==
    IF ~HasId(savedSessionSets, id)
    THEN UNCHANGED vars
    ELSE /\ CanSuspend
         /\ ops' = Suspend(ConfirmOp("delete", <<>>, savedSessionSets, id))
         /\ started' = started + 1
         /\ UNCHANGED <<time, display, isRunning, ticking, sessions,
                        savedSessionSets, storage, now, loadOp, alert,
                        summaryVars, lastSave, authVars>>

\* deleteSavedSessionSet from the answer of Dialog.confirm to Preferences.set
DeleteAnswer(op, value) ==
    /\ op \in Pending /\ op.kind = "delete" /\ op.pc = "confirm"
    /\ ops' = IF value
              THEN Continue(op, WriteOp("delete", value, op.id,
                                        FilterOutId(op.sets, op.id)))
              ELSE Resume(op)
    /\ UNCHANGED <<time, display, isRunning, ticking, sessions,
                   savedSessionSets, storage, now, loadOp, alert, started,
                   summaryVars, lastSave, authVars>>

\* deleteSavedSessionSet after Preferences.set resolved
DeleteResolve(op) ==
    /\ op \in Pending /\ op.kind = "delete" /\ op.pc = "written"
    /\ savedSessionSets' = op.updatedSets
    /\ alert' = "Deleted"
    /\ ops' = Resume(op)
    /\ UNCHANGED <<time, display, isRunning, ticking, sessions, storage, now,
                   loadOp, started, summaryVars, lastSave, authVars>>

DeleteRejectApplies(op) ==
    /\ op \in Pending /\ op.kind = "delete" /\ op.pc = "write"
    /\ savedSessionSets' = op.updatedSets
    /\ alert' = "Error"
    /\ ops' = Resume(op)
    /\ UNCHANGED <<time, display, isRunning, ticking, sessions, storage, now,
                   loadOp, started, summaryVars, lastSave, authVars>>

\* deleteSavedSessionSet after Preferences.set rejected: the catch block
DeleteReject(op) ==
    /\ op \in Pending /\ op.kind = "delete" /\ op.pc = "write"
    /\ alert' = "Error"
    /\ ops' = Resume(op)
    /\ UNCHANGED <<time, display, isRunning, ticking, sessions,
                   savedSessionSets, storage, now, loadOp, started,
                   summaryVars, lastSave, authVars>>

\* ------------------------------------------------------------------- Next
Next ==
    \/ Tick
    \/ handleStart
    \/ handleStop
    \/ handleReset
    \/ \E op \in Pending, value \in BOOLEAN : ResetAnswer(op, value)
    \/ LoadGet
    \/ loadSavedSessions
    \/ saveSessionSet
    \/ \E op \in Pending, value \in BOOLEAN : SaveAnswer(op, value)
    \/ \E op \in Pending : StorageCommit(op)
    \/ \E op \in Pending : SaveResolve(op)
    \/ \E op \in Pending : SaveReject(op)
    \/ \E id \in DeleteIds : deleteSavedSessionSet(id)
    \/ \E op \in Pending, value \in BOOLEAN : DeleteAnswer(op, value)
    \/ \E op \in Pending : DeleteResolve(op)
    \/ \E op \in Pending : DeleteReject(op)

Spec == Init /\ [][Next]_vars

\* ------------------------------------------- the clock and recorder alone
\* The runs in which the session set store is left alone (no save, no delete,
\* the mount load still pending), with a longer supply of ticks.
ClockTick == TickWithin(MaxClockTicks)

NextClock ==
    \/ ClockTick
    \/ handleStart
    \/ handleStop
    \/ handleReset
    \/ \E op \in Pending, value \in BOOLEAN : ResetAnswer(op, value)

SpecClock == Init /\ [][NextClock]_vars

\* ------------------------------------------------------- the time display
\* formatTime over elapsed values the running clock reaches: the boundary
\* values of each field, with and without a remainder below one centisecond
FormatInputs ==
    {m * MsPerMinute + s * MsPerSecond + c * MsPerCentisecond + r :
        m \in {0, 1, 9, 10, 59, 60, 99, MaxMinutes}, s \in {0, 1, 9, 10, 59},
        c \in {0, 1, 3, 9, 10, 99}, r \in {0, 9}}

\* the clock is running at some elapsed value whose render is still to come
InitFormat ==
    /\ time \in FormatInputs
    /\ display = <<>>
    /\ isRunning = TRUE
    /\ ticking = TRUE
    /\ sessions = <<>>
    /\ savedSessionSets = <<>>
    /\ storage = NoEntry
    /\ now = TickMs + time
    /\ loadOp = [pc |-> "done", value |-> NoEntry]
    /\ ops = EmptyBag
    /\ alert = "none"
    /\ started = 0
    /\ timezone = 0
    /\ periods = <<>>
    /\ selectedPeriod = <<>>
    /\ dailyArray = <<>>
    /\ lastSave = <<>>
    /\ AuthAtRest

\* the render of the time display: {formatTime(time)}
Render ==
    /\ display' = formatTime(time)
    /\ UNCHANGED <<time, isRunning, ticking, sessions, savedSessionSets,
                   storage, now, loadOp, ops, alert, started, summaryVars, lastSave, authVars>>

NextFormat == Render

SpecFormat == InitFormat /\ [][NextFormat]_vars

\* ----------------------------------------------------- the session summary
\* The summary tab over a loaded collection: the render of the period list,
\* the selection of a period and the histogram report of the selected period.

\* 12:00, 23:30 and 00:30 UTC
Noon == 12 * 60 * MsPerMinute
LateEvening == 1410 * MsPerMinute
AfterMidnight == 30 * MsPerMinute

\* instants at which a set was saved, in chronological order: the 10th and
\* the 20th of one month, the same day of the year before, and the hours
\* around the turn of a half, of a month and of a 29-day February, which fall
\* on either side of it in different time zones
SaveInstants ==
    << MakeTime(DaysFromCivil(2023, 2, 10), Noon),
       MakeTime(DaysFromCivil(2024, 1, 31), LateEvening),
       MakeTime(DaysFromCivil(2024, 2, 10), Noon),
       MakeTime(DaysFromCivil(2024, 2, 15), LateEvening),
       MakeTime(DaysFromCivil(2024, 2, 16), AfterMidnight),
       MakeTime(DaysFromCivil(2024, 2, 20), Noon),
       MakeTime(DaysFromCivil(2024, 3, 1), AfterMidnight),
       MakeTime(DaysFromCivil(2024, 4, 30), Noon) >>

TimeZones == {-300, 0, 120}

\* a Session of the given duration stopped at instant t
sessionAt(t, d) == [id |-> <<t.date, t.timeOfDay>>, duration |-> d, timestamp |-> t]

\* the batch a set saved at instant t holds: one Session stopped a minute
\* before the save, alone or after a Session stopped the day before
BatchAt(t, long) ==
    LET last == sessionAt(MakeTime(t.date, t.timeOfDay - MsPerMinute), 2500)
        first == sessionAt(MakeTime(t.date - 1, t.timeOfDay - 60 * MsPerMinute), 1500)
    IN  IF long THEN <<first, last>> ELSE <<last>>

\* the set saveSessionSet builds from batch ss at instant t
savedAt(t, ss) ==
    [id |-> <<t.date, t.timeOfDay>>,
     name |-> <<"Session", t.date, t.timeOfDay \div MsPerMinute>>,
     sessions |-> ss, totalTime |-> calculateTotalTime(ss), createdAt |-> t]

\* the collections of at most MaxSummarySets sets, saved at increasing instants
SummaryCollections ==
    UNION {
        {[i \in 1..n |-> savedAt(SaveInstants[at[i]],
                                 BatchAt(SaveInstants[at[i]], long[i]))] :
            at \in {f \in [1..n -> 1..Len(SaveInstants)] :
                       \A i \in 1..n - 1 : f[i] < f[i + 1]},
            long \in [1..n -> BOOLEAN]}
        : n \in 0..MaxSummarySets}

InitSummary ==
    /\ time = 0
    /\ display = formatTime(0)
    /\ isRunning = FALSE
    /\ ticking = FALSE
    /\ sessions = <<>>
    /\ savedSessionSets \in SummaryCollections
    /\ storage = IF savedSessionSets = <<>> THEN NoEntry
                 ELSE [kind |-> "json", value |-> savedSessionSets]
    /\ now = TickMs
    /\ loadOp = [pc |-> "done", value |-> NoEntry]
    /\ ops = EmptyBag
    /\ alert = "none"
    /\ started = 0
    /\ timezone \in TimeZones
    /\ periods = <<>>
    /\ selectedPeriod = <<>>
    /\ dailyArray = <<>>
    /\ lastSave = <<>>
    /\ AuthAtRest

\* the cells the summary leaves alone
stopwatchVars ==
    <<time, display, isRunning, ticking, sessions, now, loadOp, ops, alert,
      started, lastSave, authVars>>

RenderAccumulates ==
    /\ periods' = periods \o generateSessionSummary(savedSessionSets, timezone)
    /\ UNCHANGED <<savedSessionSets, storage, timezone, selectedPeriod,
                   dailyArray, stopwatchVars>>

\* the render of the summary tab: generateSessionSummary().map(...)
RenderSummary ==
    /\ periods' = generateSessionSummary(savedSessionSets, timezone)
    /\ UNCHANGED <<savedSessionSets, storage, timezone, selectedPeriod,
                   dailyArray, stopwatchVars>>

\* a click on a period of the rendered list
handlePeriodClick(period) ==
    /\ selectedPeriod' = <<period>>
    /\ UNCHANGED <<savedSessionSets, storage, timezone, periods, dailyArray,
                   stopwatchVars>>

handleCloseModal ==
    /\ selectedPeriod' = <<>>
    /\ UNCHANGED <<savedSessionSets, storage, timezone, periods, dailyArray,
                   stopwatchVars>>

\* copyHistogramReport up to the daily breakdown it draws
copyHistogramReport ==
    /\ selectedPeriod # <<>>
    /\ dailyArray' = dailyBreakdown(selectedPeriod[1])
    /\ UNCHANGED <<savedSessionSets, storage, timezone, periods,
                   selectedPeriod, stopwatchVars>>

NextSummary ==
    \/ RenderSummary
    \/ \E k \in 1..Len(periods) : handlePeriodClick(periods[k])
    \/ handleCloseModal
    \/ copyHistogramReport

SpecSummary == InitSummary /\ [][NextSummary]_vars

\* ------------------------------------------- the session set store alone
\* The runs in which a batch of 1500 ms and 2500 ms stands recorded and the
\* clock is left alone: saves and deletes, with the mount load pending or
\* done.  lastSave remembers what the latest confirmed save found.
RecordedBatch ==
    <<newSession(2 * TickMs + 1500, 1500), newSession(4 * TickMs + 4000, 2500)>>

InitStore ==
    /\ time = 0
    /\ display = formatTime(0)
    /\ isRunning = FALSE
    /\ ticking = FALSE
    /\ sessions = RecordedBatch
    /\ storage \in {NoEntry, Malformed, stringify(<<EarlierSet>>)}
    /\ loadOp \in {[pc |-> "get", value |-> NoEntry],
                   [pc |-> "done", value |-> NoEntry]}
    /\ savedSessionSets = IF loadOp.pc = "done" /\ storage.kind = "json"
                          THEN sessionsWithDates(storage.value)
                          ELSE <<>>
    /\ now = 4 * TickMs + 4000
    /\ ops = EmptyBag
    /\ alert = "none"
    /\ started = 0
    /\ timezone = 0
    /\ periods = <<>>
    /\ selectedPeriod = <<>>
    /\ dailyArray = <<>>
    /\ lastSave = <<>>
    /\ AuthAtRest

\* SaveAnswer, remembered
SaveAnswerNoted(op, value) ==
    /\ op \in Pending /\ op.kind = "save" /\ op.pc = "confirm"
    /\ now' = IF value THEN now + 1 ELSE now
    /\ ops' = IF value
              THEN Continue(op, WriteOp("save", value, <<>>,
                       Append(op.sets, newSessionSet(op.sessions, now + 1))))
              ELSE Resume(op)
    /\ lastSave' = IF value
                   THEN <<[id |-> NumberToString(now + 1),
                           sets |-> savedSessionSets,
                           persisted |-> IF storage.kind = "json"
                                         THEN storage.value ELSE <<>>]>>
                   ELSE lastSave
    /\ UNCHANGED <<time, display, isRunning, ticking, sessions,
                   savedSessionSets, storage, loadOp, alert, started,
                   summaryVars, authVars>>

\* DeleteAnswer, remembered
DeleteAnswerNoted(op, value) ==
    /\ op \in Pending /\ op.kind = "delete" /\ op.pc = "confirm"
    /\ ops' = IF value
              THEN Continue(op, WriteOp("delete", value, op.id,
                                        FilterOutId(op.sets, op.id)))
              ELSE Resume(op)
    /\ lastSave' = IF value /\ lastSave # <<>> /\ lastSave[1].id # op.id
                   THEN <<>>
                   ELSE lastSave
    /\ UNCHANGED <<time, display, isRunning, ticking, sessions,
                   savedSessionSets, storage, now, loadOp, alert, started,
                   summaryVars, authVars>>

NextStore ==
    \/ LoadGet
    \/ loadSavedSessions
    \/ saveSessionSet
    \/ \E op \in Pending, value \in BOOLEAN : SaveAnswerNoted(op, value)
    \/ \E op \in Pending : StorageCommit(op)
    \/ \E op \in Pending : SaveResolve(op)
    \/ \E op \in Pending : SaveReject(op)
    \/ \E id \in DeleteIds : deleteSavedSessionSet(id)
    \/ \E op \in Pending, value \in BOOLEAN : DeleteAnswerNoted(op, value)
    \/ \E op \in Pending : DeleteResolve(op)
    \/ \E op \in Pending : DeleteReject(op)

SpecStore == InitStore /\ [][NextStore]_vars

\* ------------------------------------------------------ the AuthProvider
\* The runs of the AuthProvider from its mount, the Stopwatch left alone: the
\* entries are what an earlier run left (nothing, the demo user alone or with
\* a registered user; no session or the session of the demo user).
StoredUsers ==
    {AbsentEntry,
     StoredEntry(<<demoUser(0)>>),
     StoredEntry(<<demoUser(0),
                   newUser("ann", <<"ann", "@", "x.org">>, "secret1", 0)>>)}

InitAuth ==
    /\ time = 0
    /\ display = formatTime(0)
    /\ isRunning = FALSE
    /\ ticking = FALSE
    /\ sessions = <<>>
    /\ savedSessionSets = <<>>
    /\ storage = NoEntry
    /\ now = TickMs
    /\ loadOp = [pc |-> "done", value |-> NoEntry]
    /\ ops = EmptyBag
    /\ alert = "none"
    /\ started = 0
    /\ timezone = 0
    /\ periods = <<>>
    /\ selectedPeriod = <<>>
    /\ dailyArray = <<>>
    /\ lastSave = <<>>
    /\ registeredUsers \in StoredUsers
    /\ \/ authToken = AbsentEntry /\ userData = AbsentEntry
       \/ /\ registeredUsers # AbsentEntry
          /\ authToken = StoredEntry(<<"token", 0>>)
          /\ userData = StoredEntry(sessionUser(demoUser(0)))
    /\ user = <<>>
    /\ authOps = SetToBag({AuthOp("init", "get", "", <<>>, "", <<>>)})
    /\ outcome = NoOutcome

NextAuth ==
    \/ \E op \in AuthPending : InitGet(op)
    \/ \E op \in AuthPending : InitSeed(op)
    \/ \E op \in AuthPending : CheckToken(op)
    \/ \E op \in AuthPending : CheckUser(op)
    \/ \E op \in AuthPending : InitRejected(op)
    \/ \E username \in Usernames, password \in Passwords : login(username, password)
    \/ \E op \in AuthPending : LoginGet(op)
    \/ \E op \in AuthPending : LoginSetToken(op)
    \/ \E op \in AuthPending : LoginSetData(op)
    \/ \E op \in AuthPending : LoginRejected(op)
    \/ \E username \in Usernames, email \in Emails, password \in Passwords :
          register(username, email, password)
    \/ \E op \in AuthPending : RegisterGet(op)
    \/ \E op \in AuthPending : RegisterSet(op)
    \/ \E op \in AuthPending : RegisterRejected(op)
    \/ logout
    \/ \E op \in AuthPending, value \in BOOLEAN : LogoutAnswer(op, value)
    \/ \E op \in AuthPending : LogoutRemoveToken(op)
    \/ \E op \in AuthPending : LogoutRemoveData(op)
    \/ \E op \in AuthPending : LogoutRejected(op)

SpecAuth == InitAuth /\ [][NextAuth]_vars

\* The session set store with a storage provider that answers: a pending
\* Preferences.set is eventually stored or refused, and the handler that
\* awaits a stored write is eventually resumed by the event loop.
StorageAnswers ==
    \E op \in Pending : StorageCommit(op) \/ SaveReject(op) \/ DeleteReject(op)

HandlerResumes ==
    \E op \in Pending : SaveResolve(op) \/ DeleteResolve(op)

SpecStoreLive ==
    SpecStore /\ WF_vars(StorageAnswers) /\ WF_vars(HandlerResumes)

\* ================================================================ claims
\* the sets of the persisted list (none when the entry is absent or malformed)
PersistedSets == IF storage.kind = "json" THEN storage.value ELSE <<>>

\* the sum of the durations of a sequence of Sessions, taken from the front
RECURSIVE DurationSum(_)
DurationSum(ss) == IF ss = <<>> THEN 0 ELSE ss[1].duration + DurationSum(Tail(ss))

\* the step in which the pending invocation op finishes (leaves the bag)
Finishes(op) == op \in Pending /\ ops' = Resume(op)

\* invocations whose Preferences.set has been called and has not been answered to
\* the handler yet
InFlightWrites ==
    {op \in Pending : op.kind \in {"save", "delete"} /\ op.pc \in {"write", "written"}}

\* ---------------------------------------------------------------------- C1
AllDurationsPositive ==
    /\ \A i \in 1..Len(sessions) : sessions[i].duration > 0
    /\ \A i \in 1..Len(savedSessionSets) :
          \A j \in 1..Len(savedSessionSets[i].sessions) :
              savedSessionSets[i].sessions[j].duration > 0
    /\ \A i \in 1..Len(PersistedSets) :
          \A j \in 1..Len(PersistedSets[i].sessions) :
              PersistedSets[i].sessions[j].duration > 0

\* C1: every Session of the current batch, of every saved set in memory and of
\* every persisted set has duration > 0, and from a state whose elapsed value
\* is 0 no step (so no stop) makes the batch longer.
C1_PositiveDurations ==
    /\ []AllDurationsPositive
    /\ [][time = 0 => Len(sessions') <= Len(sessions)]_vars

\* the clock is stopped at elapsed 0 with a recorded Session in the batch,
\* next to a saved set in memory and in the persisted list
C1_Witness ==
    /\ Len(sessions) >= 1 /\ time = 0 /\ ~isRunning
    /\ Len(savedSessionSets) >= 1 /\ Len(PersistedSets) >= 1

\* ---------------------------------------------------------------------- C2
\* C2: every saved set, in memory and persisted, has totalTime equal to the
\* sum of the durations of its sessions, in every reachable state.
C2_TotalTimeIsSum ==
    /\ \A i \in 1..Len(savedSessionSets) :
          savedSessionSets[i].totalTime = DurationSum(savedSessionSets[i].sessions)
    /\ \A i \in 1..Len(PersistedSets) :
          PersistedSets[i].totalTime = DurationSum(PersistedSets[i].sessions)

\* a set of two Sessions is in the collection and in the persisted list
C2_Witness ==
    /\ \E i \in 1..Len(savedSessionSets) : Len(savedSessionSets[i].sessions) = 2
    /\ \E i \in 1..Len(PersistedSets) : Len(PersistedSets[i].sessions) = 2

\* ---------------------------------------------------------------------- C3
\* C3: the step that completes a confirmed save whose write succeeded appends
\* exactly one set to the end of the collection, that set holds the batch's
\* sessions in order, the persisted list is the whole resulting list, and the
\* batch is empty afterwards.
C3_SaveAppendsOne ==
    [][\A op \in Pending :
          (op.kind = "save" /\ op.pc = "written" /\ Finishes(op)) =>
             /\ Len(savedSessionSets') = Len(savedSessionSets) + 1
             /\ SubSeq(savedSessionSets', 1, Len(savedSessionSets)) = savedSessionSets
             /\ savedSessionSets'[Len(savedSessionSets')].sessions = sessions
             /\ storage' = stringify(savedSessionSets')
             /\ sessions' = <<>>]_vars

\* ---------------------------------------------------------------------- C4
\* C4: the step in which a save learns that its storage write failed leaves the
\* in-memory collection, the persisted list and the current batch unchanged
\* and shows the Error alert.
C4_SaveFailureRollsBack ==
    [][\A op \in Pending :
          (op.kind = "save" /\ op.pc = "write" /\ Finishes(op)) =>
             /\ UNCHANGED <<savedSessionSets, storage, sessions>>
             /\ alert' = "Error"]_vars

\* a save has failed: the Error alert is up, the batch is still there and
\* the collection holds nothing but what was loaded
C4_Witness ==
    /\ alert = "Error" /\ Len(sessions) >= 1 /\ ops = EmptyBag
    /\ savedSessionSets = sessionsWithDates(PersistedSets)
    /\ loadOp.pc = "done"

\* ---------------------------------------------------------------------- C5
\* C5: from a state whose batch is empty no step adds a save that waits for a
\* confirmation (so save asks nothing and, by C6, writes nothing); the empty
\* branch of saveSessionSet changes no variable at all.
C5_EmptySaveIsNoOp ==
    [][Len(sessions) = 0 =>
          \A op \in BagToSet(ops') :
              (op.kind = "save" /\ op.pc = "confirm") =>
                  CopiesIn(op, ops') <= CopiesIn(op, ops)]_vars

\* the batch is empty right after a successful save: a second press of save
\* finds nothing to save
C5_Witness ==
    /\ Len(sessions) = 0 /\ alert = "Success" /\ ops = EmptyBag
    /\ Len(savedSessionSets) >= 1

\* ---------------------------------------------------------------------- C6
\* C6: an invocation that has called Preferences.set got a positive answer
\* from its confirmation, the persisted entry changes only by such a call, and
\* the step in which a save or delete is cancelled leaves the persisted list,
\* the collection and the batch unchanged.
C6_WritesAreConfirmed ==
    /\ [](\A op \in InFlightWrites : op.value = TRUE)
    /\ [][storage' # storage =>
             \E op \in Pending : /\ op.kind \in {"save", "delete"}
                                 /\ op.pc = "write" /\ op.value = TRUE
                                 /\ storage' = stringify(op.updatedSets)]_vars
    /\ [][\A op \in Pending :
             (op.kind \in {"save", "delete"} /\ op.pc = "confirm" /\ Finishes(op)) =>
                UNCHANGED <<storage, savedSessionSets, sessions>>]_vars

\* a confirmed delete has written the persisted list
C6_Witness ==
    \E op \in Pending : /\ op.kind = "delete" /\ op.pc = "written" /\ op.value
                        /\ storage = stringify(op.updatedSets)

\* ---------------------------------------------------------------------- C7
\* C7: the step that completes a confirmed delete(id) whose write succeeded
\* removes exactly one set, the one with that id, keeps the others in order,
\* and the persisted list is the filtered list.
C7_DeleteRemovesOne ==
    [][\A op \in Pending :
          (op.kind = "delete" /\ op.pc = "written" /\ Finishes(op)) =>
             /\ Len(savedSessionSets') = Len(savedSessionSets) - 1
             /\ savedSessionSets' = FilterOutId(savedSessionSets, op.id)
             /\ storage' = stringify(savedSessionSets')]_vars

\* ---------------------------------------------------------------------- C8
\* C8: no step adds a delete that waits for a confirmation for an id that is
\* not in the in-memory collection (so such a delete asks nothing and, by C6,
\* writes nothing); the unknown-id branch changes no variable at all.
C8_UnknownDeleteIsNoOp ==
    [][\A op \in BagToSet(ops') :
          (/\ op.kind = "delete" /\ op.pc = "confirm"
           /\ CopiesIn(op, ops') > CopiesIn(op, ops)) =>
              HasId(savedSessionSets, op.id)]_vars

\* a settled state with a saved set, in which delete can be asked for an id
\* that no set has
C8_Witness ==
    /\ Len(savedSessionSets) >= 1 /\ ~HasId(savedSessionSets, UnknownId)
    /\ UnknownId \in DeleteIds /\ ops = EmptyBag /\ loadOp.pc = "done"

\* ---------------------------------------------------------------------- C9
\* C9: the step in which a delete learns that its storage write failed leaves
\* the in-memory collection and the persisted list unchanged (every set they
\* held, the one to be deleted included, is still there) and shows the Error
\* alert.
C9_DeleteFailureRollsBack ==
    [][\A op \in Pending :
          (op.kind = "delete" /\ op.pc = "write" /\ Finishes(op)) =>
             /\ UNCHANGED <<savedSessionSets, storage>>
             /\ alert' = "Error"]_vars

\* a delete has failed: the Error alert is up and the set is still in the
\* collection and in the persisted list
C9_Witness ==
    /\ alert = "Error" /\ ops = EmptyBag /\ Len(sessions) = 0 /\ now = TickMs
    /\ Len(savedSessionSets) >= 1
    /\ storage = stringify(savedSessionSets)

\* --------------------------------------------------------------------- C10
\* C10: at most one save or delete has its storage write in flight.
C10_OneMutationInFlight ==
    \A op1, op2 \in InFlightWrites : op1 = op2 /\ CopiesIn(op1, ops) = 1

\* --------------------------------------------------------------------- C11
\* what loadSavedSessions makes of a persisted value
Loaded(entry) == IF entry.kind = "json" THEN sessionsWithDates(entry.value) ELSE <<>>

\* the step in which Preferences.set stores the list of the pending save op
Commits(op) ==
    /\ op \in Pending /\ op.kind = "save" /\ op.pc = "write"
    /\ ops' = Continue(op, [op EXCEPT !.pc = "written"])

\* C11: when a save stores its list, loading the persisted list yields, in
\* the last place, a set with the sessions of the saved set (same id, duration
\* and timestamp, same order; the batch was not empty) and the same totalTime;
\* and what the mount load puts in the collection serialises back to the
\* value it read.
C11_RoundTrip ==
    /\ [][\A op \in Pending : Commits(op) =>
             LET saved == op.updatedSets[Len(op.updatedSets)]
                 loaded == Loaded(storage')
             IN  /\ Len(saved.sessions) > 0
                 /\ Len(loaded) = Len(op.updatedSets)
                 /\ loaded[Len(loaded)].sessions = saved.sessions
                 /\ loaded[Len(loaded)].totalTime = saved.totalTime]_vars
    /\ [][(loadOp.pc = "got" /\ loadOp'.pc = "done" /\ loadOp.value.kind = "json")
             => stringify(savedSessionSets') = loadOp.value]_vars

\* a save of a batch of two Sessions has been stored, and loading the stored
\* list gives back the list the save wrote
C11_Witness ==
    \E op \in Pending :
        /\ op.kind = "save" /\ op.pc = "written"
        /\ Len(op.updatedSets[Len(op.updatedSets)].sessions) = 2
        /\ Loaded(storage) = op.updatedSets

\* --------------------------------------------------------------------- C12
\* the step in which the mount load finishes on an absent or malformed entry
LoadFindsNothing ==
    loadOp.pc = "got" /\ loadOp'.pc = "done" /\ loadOp.value.kind # "json"

\* C12: while the key holds no entry or a malformed value the in-memory
\* collection is empty; the step in which load finishes on such a value
\* changes neither the collection nor the clock, the batch or the storage (the
\* failure is caught), and the read step of load writes nothing either.
C12_LoadOfNothing ==
    /\ [](storage.kind # "json" => savedSessionSets = <<>>)
    /\ [][LoadFindsNothing =>
             UNCHANGED <<savedSessionSets, storage, time, isRunning, sessions,
                         ops, alert>>]_vars
    /\ [][loadOp'.pc # loadOp.pc => storage' = storage]_vars

\* the load has finished on a malformed value and the application went on: a
\* Session was recorded and the clock is running again
C12_Witness ==
    /\ storage = Malformed /\ loadOp.pc = "done" /\ savedSessionSets = <<>>
    /\ Len(sessions) >= 1 /\ isRunning /\ time > 0

\* --------------------------------------------------------------------- C13
\* C13: the elapsed value is a non-negative multiple of the quantum; every
\* firing of the tick (the steps on which the clock of the run advances) finds
\* the stopwatch running and adds exactly the quantum; no step changes the
\* elapsed value otherwise than by one quantum or to 0; and as long as no
\* reset was asked for, no tick is lost: the elapsed value and the recorded
\* durations add up to the quantum times the number of ticks so far.
C13_TickQuantum ==
    /\ [](time >= 0 /\ time % TickMs = 0)
    /\ [][now' # now => (isRunning /\ time' = time + TickMs)]_vars
    /\ [][time' = time \/ time' = time + TickMs \/ time' = 0]_vars
    /\ [](started = 0 => time + DurationSum(sessions) = now - TickMs)

\* three ticks after a start from 0, without a stop: the elapsed value is 30
C13_Witness ==
    /\ isRunning /\ time = 3 * TickMs /\ now = 4 * TickMs
    /\ sessions = <<>> /\ started = 0

\* --------------------------------------------------------------------- C14
\* the step of a stop: the stopwatch goes from running to not running and no
\* confirmation is answered (a reset that was asked about ends one)
StopStep == isRunning /\ ~isRunning' /\ ops' = ops

\* C14 as stated: immediately after a stop the elapsed value equals the value
\* it had immediately before the stop.
C14_StopFreezes == [][StopStep => time' = time]_vars

\* C14 amended: a stop halts accumulation (not running, no tick registered)
\* and leaves the elapsed value at 0; the value it had immediately before the
\* stop, when above 0, is the duration of the Session at the end of the batch.
C14_StopHalts ==
    [][StopStep =>
          /\ ~ticking' /\ time' = 0
          /\ time > 0 => /\ Len(sessions') = Len(sessions) + 1
                          /\ sessions'[Len(sessions')].duration = time]_vars

\* the clock was stopped at 20: it shows 0 and the batch holds the 20
C14_Witness ==
    /\ ~isRunning /\ ~ticking /\ time = 0 /\ now = 3 * TickMs
    /\ Len(sessions) = 1 /\ sessions[1].duration = 2 * TickMs

\* --------------------------------------------------------------------- C15
\* the step of a start: the stopwatch goes from not running to running
StartStep == ~isRunning /\ isRunning'

\* C15: a start makes the stopwatch run (the tick is registered) and changes
\* neither the elapsed value nor the batch, the saved collection or the
\* persisted list; the first tick after it adds to the value held at the start.
C15_StartKeepsAll ==
    /\ [][StartStep =>
             /\ ticking'
             /\ UNCHANGED <<time, display, sessions, savedSessionSets, storage>>]_vars
    /\ [][(ticking /\ now' = now + TickMs) => time' = time + TickMs]_vars

\* the stopwatch was started again next to a recorded Session and a loaded
\* collection, and no tick has fired since
C15_Witness ==
    /\ isRunning /\ ticking /\ time = 0 /\ now = 2 * TickMs
    /\ Len(sessions) = 1 /\ Len(savedSessionSets) = 1

\* --------------------------------------------------------------------- C16
\* the state a reset leaves
IsReset(t, running, registered, batch) ==
    t = 0 /\ ~running /\ ~registered /\ batch = <<>>

\* C16: the step in which a reset that asked for a confirmation ends either
\* is a cancellation and changes nothing, or takes effect: the elapsed value
\* is 0, the stopwatch is not running, no tick is registered and the batch is
\* empty; a reset that asks nothing (nothing elapsed, empty batch) leaves that
\* same state; in each case the saved collection and the persisted list are
\* unchanged.
C16_ResetClears ==
    /\ [][\A op \in Pending : (op.kind = "reset" /\ Finishes(op)) =>
             /\ UNCHANGED <<savedSessionSets, storage>>
             /\ \/ UNCHANGED <<time, isRunning, ticking, sessions>>
                \/ IsReset(time', isRunning', ticking', sessions')]_vars
    /\ [][(time = 0 /\ sessions = <<>> /\ isRunning /\ ~isRunning') =>
             /\ IsReset(time', isRunning', ticking', sessions')
             /\ UNCHANGED <<savedSessionSets, storage>>]_vars

\* a reset has taken effect after two ticks (no alert was shown, so no save
\* emptied the batch), next to a collection that is still what is persisted
C16_Witness ==
    /\ IsReset(time, isRunning, ticking, sessions)
    /\ now = 3 * TickMs /\ alert = "none" /\ ops = EmptyBag /\ started >= 1
    /\ Len(savedSessionSets) = 1 /\ storage = stringify(savedSessionSets)

C18_StopAppendsOne ==
    [][(StopStep /\ time > 0) =>
          /\ Len(sessions') = Len(sessions) + 1
          /\ SubSeq(sessions', 1, Len(sessions)) = sessions
          /\ sessions'[Len(sessions')] =
                 [id |-> now, duration |-> time, timestamp |-> now]]_vars

\* a second stop, at 20, has put its Session behind the one recorded at 10
C18_Witness ==
    /\ ~isRunning /\ time = 0 /\ Len(sessions) = 2
    /\ sessions[1].duration = TickMs /\ sessions[2].duration = 2 * TickMs
    /\ sessions[1].id < sessions[2].id

\* --------------------------------------------------------------------- C19
\* C19: in every reachable state the total time of the batch, as
\* calculateTotalTime computes it, is the sum of the durations of the Sessions
\* of the batch, and it is 0 when the batch is empty.
C19_BatchTotalIsSum ==
    /\ calculateTotalTime(sessions) = DurationSum(sessions)
    /\ sessions = <<>> => calculateTotalTime(sessions) = 0

\* the batch holds a Session of 20 and then one of 10, and the clock runs
C19_Witness ==
    /\ Len(sessions) = 2 /\ isRunning
    /\ sessions[1].duration = 2 * TickMs /\ sessions[2].duration = TickMs

\* --------------------------------------------------------------------- C20
\* the digit a character stands for, and the number a string of digits reads as
CharDigit(ch) ==
    CHOOSE d \in 0..9 : <<"0", "1", "2", "3", "4", "5", "6", "7", "8", "9">>[d + 1] = ch

RECURSIVE FieldValue(_)
FieldValue(chars) ==
    IF chars = <<>> THEN 0
    ELSE 10 * FieldValue(SubSeq(chars, 1, Len(chars) - 1)) + CharDigit(chars[Len(chars)])

\* C20: the rendered text of an elapsed value ms >= 0 reads, from the right:
\* two digits of centiseconds = floor((ms mod 1000) / 10), a ".", two digits of
\* seconds = floor((ms mod 60000) / 1000) < 60, a ":", and at least two digits
\* of minutes = floor(ms / 60000), with a leading zero only as padding to two
\* (so 60 minutes and more are not wrapped); 30 ms reads 00:00.03.
C20_FormatFields ==
    display # <<>> =>
        LET n == Len(display) IN
        /\ time >= 0 /\ n >= 8
        /\ display[n - 2] = "." /\ display[n - 5] = ":"
        /\ FieldValue(SubSeq(display, n - 1, n)) = (time % 1000) \div 10
        /\ FieldValue(SubSeq(display, n - 4, n - 3)) = (time % 60000) \div 1000
        /\ FieldValue(SubSeq(display, n - 4, n - 3)) < 60
        /\ FieldValue(SubSeq(display, 1, n - 6)) = time \div 60000
        /\ (n - 6 > 2 => display[1] # "0")
        /\ (time = 30 => display = <<"0", "0", ":", "0", "0", ".", "0", "3">>)

\* 100 minutes, 59 seconds, 99 centiseconds and 9 ms are rendered as 100:59.99
C20_Witness ==
    /\ time = 100 * 60000 + 59 * 1000 + 99 * 10 + 9
    /\ display = <<"1", "0", "0", ":", "5", "9", ".", "9", "9">>

\* --------------------------------------------------------------------- C21
\* the summary of the collection has been rendered
Rendered == periods # <<>> \/ savedSessionSets = <<>>

\* the places (period, position) at which the rendered periods hold set S
PlacesOf(S) ==
    {<<k, j>> \in (1..Len(periods)) \X (1..MaxSummarySets + 1) :
        j <= Len(periods[k].sessions) /\ periods[k].sessions[j] = S}

\* the sum of a sequence of numbers
RECURSIVE SumOf(_)
SumOf(ns) == IF ns = <<>> THEN 0 ELSE ns[1] + SumOf(Tail(ns))

\* C21: in the rendered summary every set of the collection is a member of
\* exactly one period, every member of a period is a set of the collection,
\* and the periods' totalTime add up to the sets' totalTime.
C21_PeriodPartition ==
    Rendered =>
        /\ \A i \in 1..Len(savedSessionSets) :
              Cardinality(PlacesOf(savedSessionSets[i])) = 1
        /\ \A k \in 1..Len(periods) : \A j \in 1..Len(periods[k].sessions) :
              \E i \in 1..Len(savedSessionSets) :
                  periods[k].sessions[j] = savedSessionSets[i]
        /\ SumOf([k \in 1..Len(periods) |-> periods[k].totalTime])
              = SumOf([i \in 1..Len(savedSessionSets) |-> savedSessionSets[i].totalTime])

\* three sets in two periods, one period holding two of them
C21_Witness ==
    /\ Len(savedSessionSets) = 3 /\ Len(periods) = 2
    /\ \E k \in 1..2 : Len(periods[k].sessions) = 2
                        /\ periods[k].totalTime = 2500 + 4000

\* --------------------------------------------------------------------- C22
\* the period of the rendered summary that holds set S
PeriodOf(S) == CHOOSE k \in 1..Len(periods) : \E j \in 1..Len(periods[k].sessions) :
                                                  periods[k].sessions[j] = S

\* year, month and half of the local date of an instant
HalfOf(t) ==
    LET local == CivilFromDays(MakeTime(t.date, t.timeOfDay + timezone * MsPerMinute).date)
    IN  <<local.year, local.month, IF local.day <= 15 THEN 1 ELSE 2>>

\* C22: two sets of the collection are in the same period of the rendered
\* summary exactly when their createdAt have, on the device's calendar, the
\* same year, the same month and the same half (days 1-15, days 16 on); sets
\* created on the 10th and on the 20th of a month are in different periods.
C22_SamePeriodSameHalf ==
    Rendered =>
        \A i, j \in 1..Len(savedSessionSets) :
            LET S == savedSessionSets[i]
                T == savedSessionSets[j]
            IN  /\ (PeriodOf(S) = PeriodOf(T)) <=> (HalfOf(S.createdAt) = HalfOf(T.createdAt))
                /\ (/\ CivilFromDays(S.createdAt.date).day = 10
                    /\ CivilFromDays(T.createdAt.date) =
                          [CivilFromDays(S.createdAt.date) EXCEPT !.day = 20])
                      => PeriodOf(S) # PeriodOf(T)

\* the sets of 10 and 20 February 2024 and the set of 10 February 2023 are
\* rendered in three periods
C22_Witness ==
    /\ Len(savedSessionSets) = 3 /\ Len(periods) = 3
    /\ savedSessionSets[1].createdAt = SaveInstants[1]
    /\ savedSessionSets[2].createdAt = SaveInstants[3]
    /\ savedSessionSets[3].createdAt = SaveInstants[6]

\* --------------------------------------------------------------------- C23
\* C23: the sessionCount of every rendered period is the number of Sessions
\* in its member sets, and the sessionCounts add up to the number of Sessions
\* in the collection.
C23_SessionCount ==
    Rendered =>
        /\ \A k \in 1..Len(periods) :
              periods[k].sessionCount =
                  SumOf([j \in 1..Len(periods[k].sessions) |->
                            Len(periods[k].sessions[j].sessions)])
        /\ SumOf([k \in 1..Len(periods) |-> periods[k].sessionCount])
              = SumOf([i \in 1..Len(savedSessionSets) |->
                          Len(savedSessionSets[i].sessions)])

\* a period of one set of two Sessions: its sessionCount is 2, not 1
C23_Witness ==
    /\ Len(periods) >= 1 /\ Len(periods[1].sessions) = 1
    /\ periods[1].sessionCount = 2 /\ Len(savedSessionSets) = 2

\* --------------------------------------------------------------------- C24
\* C24: the rendered periods are in strictly descending order of startDate;
\* no two of them have the same startDate.
C24_NewestFirst ==
    \A k, l \in 1..Len(periods) :
        k < l => Later(periods[k].startDate, periods[l].startDate)

\* three periods, the last of them of the year before, west of Greenwich
C24_Witness ==
    /\ Len(periods) = 3 /\ timezone = -300
    /\ CivilFromDays(periods[3].startDate.date).year = 2023
    /\ CivilFromDays(periods[1].startDate.date).year = 2024

\* --------------------------------------------------------------------- C25
\* an instant as the device's calendar and clock read it
LocalTime(t) == MakeTime(t.date, t.timeOfDay + timezone * MsPerMinute)

\* C25: every rendered period runs from the first instant of day 1 to the
\* last millisecond of day 15, or from the first instant of day 16 to the last
\* millisecond of the last day, of one month of the device's calendar, and
\* the createdAt of each of its members lies between its startDate and its
\* endDate, both included.
C25_MembersWithinBounds ==
    Rendered =>
        \A k \in 1..Len(periods) :
            LET p == periods[k]
                s == LocalTime(p.startDate)
                e == LocalTime(p.endDate)
                sd == CivilFromDays(s.date)
                ed == CivilFromDays(e.date)
            IN  /\ s.timeOfDay = 0 /\ e.timeOfDay = MsPerDay - 1
                /\ sd.year = ed.year /\ sd.month = ed.month
                /\ \/ sd.day = 1 /\ ed.day = 15
                   \/ sd.day = 16 /\ CivilFromDays(e.date + 1).day = 1
                /\ \A j \in 1..Len(p.sessions) :
                      /\ ~Later(p.startDate, p.sessions[j].createdAt)
                      /\ ~Later(p.sessions[j].createdAt, p.endDate)

\* east of Greenwich, a period that ends with 29 February 2024 and one that
\* ends with 15 February
C25_Witness ==
    /\ timezone = 120
    /\ \E k, l \in 1..Len(periods) :
          /\ CivilFromDays(LocalTime(periods[k].endDate).date)
                = [year |-> 2024, month |-> 2, day |-> 29]
          /\ CivilFromDays(LocalTime(periods[l].endDate).date)
                = [year |-> 2024, month |-> 2, day |-> 15]

LocalDay(t) == LocalTime(t).date

\* C27: the daily breakdown drawn for the selected period has exactly one
\* entry for every calendar day from the period's startDate to its endDate,
\* and no other: N entries for N days, ascending, without gaps.
C27_OneEntryPerDay ==
    [][(dailyArray' # dailyArray /\ selectedPeriod # <<>>) =>
          LET p == selectedPeriod[1]
              first == LocalDay(p.startDate)
              N == LocalDay(p.endDate) - first + 1
          IN  /\ Len(dailyArray') = N
              /\ \A i \in 1..Len(dailyArray') : dailyArray'[i].day = first + i - 1]_vars

\* --------------------------------------------------------------------- C28
\* a set of B that has the id of a set of A is that set of A
SameWhereSameId(A, B) ==
    \A i \in 1..Len(A) : \A j \in 1..Len(B) : B[j].id = A[i].id => B[j] = A[i]

\* C28: a saved set never changes: a set that is in the collection or in the
\* persisted list after a step has the id, name, sessions, totalTime and
\* createdAt that the set of this id had in the collection and in the
\* persisted list before the step, whatever the step (a stop that lengthens
\* the batch, a reset, a save, the load, a delete).
C28_SavedSetsImmutable ==
    [][/\ savedSessionSets' # savedSessionSets =>
             /\ SameWhereSameId(savedSessionSets, savedSessionSets')
             /\ SameWhereSameId(Loaded(storage), savedSessionSets')
       /\ storage' # storage =>
             /\ SameWhereSameId(PersistedSets, PersistedSets')
             /\ SameWhereSameId(savedSessionSets, Loaded(storage'))]_vars

\* a set of one Session is in the collection and a later stop has put a
\* Session into the batch
C28_Witness ==
    /\ Len(savedSessionSets) >= 1 /\ Len(sessions) = 1
    /\ LET S == savedSessionSets[Len(savedSessionSets)]
       IN  /\ Len(S.sessions) = 1
           /\ S.createdAt < sessions[1].id
           /\ S \in {Loaded(storage)[i] : i \in 1..Len(Loaded(storage))}

\* --------------------------------------------------------------------- C29
\* C29: when the delete of the set that the latest save made completes (no
\* other set having been deleted in between), the collection and the
\* persisted list hold what they held before that save.
C29_SaveThenDelete ==
    [][\A op \in Pending :
          (/\ op.kind = "delete" /\ op.pc = "written" /\ Finishes(op)
           /\ lastSave # <<>> /\ op.id = lastSave[1].id)
          => /\ savedSessionSets' = lastSave[1].sets
             /\ PersistedSets' = lastSave[1].persisted]_vars

\* --------------------------------------------------------------------- C30
\* C30: the ids of the Sessions of the batch increase strictly in insertion
\* order, and no two sets of the collection have the same id.
C30_UniqueIds ==
    /\ \A i, j \in 1..Len(sessions) : i < j => sessions[i].id < sessions[j].id
    /\ \A i, j \in 1..Len(savedSessionSets) :
          i # j => savedSessionSets[i].id # savedSessionSets[j].id

\* two sets in the collection, the second made by a save of this run, and a
\* Session recorded since
C30_Witness ==
    /\ Len(savedSessionSets) = 2 /\ Len(sessions) = 1
    /\ savedSessionSets[1] = EarlierSet
    /\ sessions[1].id > savedSessionSets[2].createdAt

\* --------------------------------------------------------------------- C31
\* C31: when a save completes successfully, every Session it removes from the
\* batch is in the set it persisted (the last set of the list it wrote), also
\* when a stop recorded a Session while the save was waiting.
C31_NoSessionLost ==
    [][\A op \in Pending :
          (op.kind = "save" /\ op.pc = "written" /\ Finishes(op)) =>
             \A i \in 1..Len(sessions) :
                 (\A j \in 1..Len(sessions') : sessions'[j] # sessions[i]) =>
                     \E k \in 1..Len(op.updatedSets[Len(op.updatedSets)].sessions) :
                         op.updatedSets[Len(op.updatedSets)].sessions[k] = sessions[i]]_vars

\* --------------------------------------------------------------------- C32
\* C32: when a save stores its list, every set that was in the persisted list
\* is in the persisted list afterwards.
C32_SaveKeepsPersisted ==
    [][\A op \in Pending :
          Commits(op) =>
             \A i \in 1..Len(PersistedSets) :
                 \E j \in 1..Len(PersistedSets') :
                     PersistedSets'[j] = PersistedSets[i]]_vars

\* --------------------------------------------------------------------- C33
\* C33: when the mount load is done, the entry is not malformed and no save
\* or delete is pending, the collection is the persisted list (same sets,
\* same order).
C33_MemoryIsPersisted ==
    (/\ loadOp.pc = "done"
     /\ storage.kind # "malformed"
     /\ \A op \in Pending : op.kind \notin {"save", "delete"})
    => savedSessionSets = Loaded(storage)

TimeOn(members, day) ==
    SumOf([a \in 1..Len(members) |->
              DurationSum(SelectSeq(members[a].sessions,
                                    LAMBDA x : x.timestamp.date = day))])

\* C35: the daily breakdown drawn for the selected period conserves time:
\* the totals of its entries add up to the period's totalTime, every Session
\* of the period's sets has exactly one entry of its day, and the total of an
\* entry is the sum of the durations of the Sessions of that day.
C35_BreakdownConservesTime ==
    [][(dailyArray' # dailyArray /\ selectedPeriod # <<>>) =>
          LET p == selectedPeriod[1]
          IN  /\ SumOf([i \in 1..Len(dailyArray') |-> dailyArray'[i].time]) = p.totalTime
              /\ \A a \in 1..Len(p.sessions) : \A b \in 1..Len(p.sessions[a].sessions) :
                    Cardinality({i \in 1..Len(dailyArray') :
                        dailyArray'[i].day = p.sessions[a].sessions[b].timestamp.date}) = 1
              /\ \A i \in 1..Len(dailyArray') :
                    dailyArray'[i].time = TimeOn(p.sessions, dailyArray'[i].day)]_vars

\* the report of a period of two sets of two Sessions each: 8000 ms on four
\* days
C35_Witness ==
    /\ selectedPeriod # <<>> /\ dailyArray # <<>>
    /\ Len(selectedPeriod[1].sessions) = 2 /\ selectedPeriod[1].totalTime = 8000
    /\ SumOf([i \in 1..Len(dailyArray) |-> dailyArray[i].time]) = 8000
    /\ Cardinality({i \in 1..Len(dailyArray) : dailyArray[i].time > 0}) = 4

\* --------------------------------------------------------------------- C36
\* a reset waiting for the answer to its confirmation
ResetAsked == ConfirmOp("reset", <<>>, <<>>, <<>>)

C37_WritesFinish ==
    /\ (InFlightWrites # {}) ~> (InFlightWrites = {})
    /\ [][\A op \in InFlightWrites :
             Finishes(op) =>
                \/ /\ op.pc = "written"
                   /\ alert' = (IF op.kind = "save" THEN "Success" ELSE "Deleted")
                   /\ savedSessionSets' = op.updatedSets
                \/ /\ op.pc = "write"
                   /\ alert' = "Error"
                   /\ savedSessionSets' = savedSessionSets]_vars

\* a save and then the delete of its set have both finished in success
C37_Witness ==
    /\ ops = EmptyBag /\ started = 2 /\ alert = "Deleted"
    /\ sessions = <<>> /\ savedSessionSets = <<>> /\ lastSave # <<>>

\* C38 (all of it): no two users of registeredUsers share a username or an
\* email, whatever register calls ran and however they overlapped, and a
\* register call whose username or email already stood in the list adds no user
\* and returns false.
UniqueUsers(users) ==
    \A i, j \in 1..Len(users) :
        i # j => /\ users[i].username # users[j].username
                 /\ users[i].email # users[j].email

RegisterFinishes(op) ==
    /\ op \in AuthPending /\ op.kind = "register"
    /\ op \notin BagToSet(authOps')

C38_RegisterKeepsUnique ==
    /\ [](UniqueUsers(ParseUsers(registeredUsers)))
    /\ [][\A op \in AuthPending :
            RegisterFinishes(op) /\ op.known
                => /\ outcome'.value = "false"
                   /\ registeredUsers' = registeredUsers]_vars

\* C39 (all of it): the authenticated state agrees with the persisted markers.
\* Whenever no login and no logout is in flight, a non-null user implies that
\* authToken and userData are stored; a login stores both and returns true
\* only when its username and password match a registered user; a confirmed
\* logout removes both and sets user to null; a cancelled logout changes
\* nothing.
SessionInFlight == {op \in AuthPending : op.kind \in {"login", "logout"}}

AuthFinishes(op) == op \in AuthPending /\ op \notin BagToSet(authOps')

C39_UserAgreesWithMarkers ==
    /\ [](SessionInFlight = {} /\ user # <<>>
            => authToken.kind = "json" /\ userData.kind = "json")
    /\ [][\A op \in AuthPending :
            /\ op.kind = "login" /\ AuthFinishes(op) /\ outcome'.value = "true"
                => /\ Matches(ParseUsers(registeredUsers), op.username,
                              op.password) # {}
                   /\ authToken'.kind = "json" /\ userData'.kind = "json"
            /\ op.kind = "logout" /\ op.pc # "confirm" /\ AuthFinishes(op)
                => /\ authToken' = AbsentEntry /\ userData' = AbsentEntry
                   /\ user' = <<>>
            /\ op.kind = "logout" /\ op.pc = "confirm" /\ AuthFinishes(op)
                => UNCHANGED <<registeredUsers, authToken, userData, user>>]_vars

====
